---- MODULE Spec2Model ----
(***************************************************************************)
(* Load of pytorch_lightning/metrics/__init__.py as a state machine.       *)
(*                                                                         *)
(* The module body is a straight line of eight statements: five            *)
(* `from <collaborator> import <names>` statements followed by three       *)
(* assignments that build the name lists.  The only input of the load is   *)
(* what the five collaborator modules expose; it is fixed before the load  *)
(* starts.  A `from m import a, b, c` statement binds its names one after  *)
(* the other and raises ImportError at the first name the collaborator     *)
(* does not expose, which ends the load.                                   *)
(***************************************************************************)
EXTENDS Naturals, Sequences, FiniteSets

VARIABLES
    provided,                   \* collaborator -> set of names it exposes
    pc,                         \* statement of the module body to run next
    namespace,                  \* module globals: set of <<name, origin>>
    attempted,                  \* import statements executed so far, in order
    raised,                     \* exception delivered to the initiator
    __classification_metrics,   \* value of the list (<<>> while unbound)
    __regression_metrics,
    __all__,
    star_status,                \* outcome of a consumer's `import *`
    star_names,                 \* names that `import *` gave the consumer
    mutations                   \* in-place list mutations done by consumers

vars == <<provided, pc, namespace, attempted, raised,
          __classification_metrics, __regression_metrics, __all__,
          star_status, star_names, mutations>>

lists == <<__classification_metrics, __regression_metrics, __all__>>

---------------------------------------------------------------------------
(* Bounds *)

\* at most this many imported names are absent from the collaborators
MaxMissing == 2

\* at most this many in-place mutations by consumers
MaxMutations == 2

---------------------------------------------------------------------------
(* The text of the module body *)

Range(s) == {s[i] : i \in 1..Len(s)}

\* the five import statements, in source order (lines 1, 2, 3, 9, 25)
ImportOrder == <<"converters", "metric", "regression", "classification", "sklearns">>

Collaborators == Range(ImportOrder)

\* names listed by each import statement, in the order written
ImportNames(m) ==
    CASE m = "converters" -> <<"numpy_metric", "tensor_metric">>
      [] m = "metric" -> <<"Metric", "TensorMetric", "NumpyMetric">>
      [] m = "regression" -> <<"MSE", "RMSE", "MAE", "RMSLE">>
      [] m = "classification" ->
            <<"Accuracy", "AveragePrecision", "ConfusionMatrix", "F1",
              "FBeta", "Recall", "ROC", "AUROC", "DiceCoefficient",
              "MulticlassPrecisionRecall", "MulticlassROC", "Precision",
              "PrecisionRecall", "IoU">>
      [] m = "sklearns" -> <<"AUC", "PrecisionRecallCurve", "SklearnMetric">>

\* every name some import statement asks for
Imported == UNION {Range(ImportNames(m)) : m \in Collaborators}

\* the classification literal with 'IoU' misspelt
ClassificationLiteral_Misspelt ==
    <<"AUC", "AUROC", "Accuracy", "AveragePrecision", "ConfusionMatrix",
      "DiceCoefficient", "F1", "FBeta", "MulticlassPrecisionRecall",
      "MulticlassROC", "Precision", "PrecisionRecall",
      "PrecisionRecallCurve", "ROC", "Recall", "IOU">>

\* the list literal of lines 31-48
ClassificationLiteral ==
    <<"AUC", "AUROC", "Accuracy", "AveragePrecision", "ConfusionMatrix",
      "DiceCoefficient", "F1", "FBeta", "MulticlassPrecisionRecall",
      "MulticlassROC", "Precision", "PrecisionRecall",
      "PrecisionRecallCurve", "ROC", "Recall", "IoU">>

\* the regression literal with two entries exchanged
RegressionLiteral_Swapped == <<"MSE", "MAE", "RMSE", "RMSLE">>

\* the list literal of lines 49-54
RegressionLiteral == <<"MSE", "RMSE", "MAE", "RMSLE">>

\* the extra name repeating an entry of the classification list
ExtraLiteral_Dup == <<"AUC">>

\* the list literal at the end of line 55
ExtraLiteral == <<"SklearnMetric">>

\* the concatenation without the extra name
AllExpr_NoExtra(reg, cls) == reg \o cls

\* the concatenation with the operands exchanged
AllExpr_ClsFirst(reg, cls) == cls \o reg \o <<"SklearnMetric">>

\* the concatenation exporting a base type as well
AllExpr_WithBase(reg, cls) == reg \o cls \o <<"SklearnMetric", "Metric">>

\* the expression on the right of `__all__ =` (line 55)
AllExpr(reg, cls) == reg \o cls \o ExtraLiteral

---------------------------------------------------------------------------
(* Helpers *)

\* the list construction starting before the last import
AfterImport_Early(i) ==
    IF i < Len(ImportOrder) - 1 THEN ImportOrder[i + 1] ELSE "classification_metrics"

\* the statement that follows import statement number i
AfterImport(i) ==
    IF i < Len(ImportOrder) THEN ImportOrder[i + 1] ELSE "classification_metrics"

Index(m) == CHOOSE i \in 1..Len(ImportOrder) : ImportOrder[i] = m

\* position of the first name of `from m import ...` that m does not expose
\* (Len + 1 when all are exposed)
FirstMissing(m) ==
    LET names == ImportNames(m)
        bad == {i \in 1..Len(names) : names[i] \notin provided[m]}
    IN  IF bad = {} THEN Len(names) + 1
        ELSE CHOOSE i \in bad : \A j \in bad : i <= j

\* the name is bound in the module globals
Bound(n) == \E b \in namespace : b[1] = n

\* names the module globals got from collaborator m
BoundFrom(m) == {b[1] : b \in {c \in namespace : c[2] = m}}

RECURSIVE SubsetsUpTo(_, _)
SubsetsUpTo(S, k) ==
    IF k = 0 THEN {{}}
    ELSE LET R == SubsetsUpTo(S, k - 1)
         IN  R \cup {r \cup {x} : r \in R, x \in S}

---------------------------------------------------------------------------
(* Initial state: nothing of the module body has run *)

Init ==
    /\ \E absent \in SubsetsUpTo(Imported, MaxMissing) :
          provided = [m \in Collaborators |-> Range(ImportNames(m)) \ absent]
    /\ pc = ImportOrder[1]
    /\ namespace = {}
    /\ attempted = <<>>
    /\ raised = "none"
    /\ __classification_metrics = <<>>
    /\ __regression_metrics = <<>>
    /\ __all__ = <<>>
    /\ star_status = "none"
    /\ star_names = {}
    /\ mutations = 0

---------------------------------------------------------------------------
(* Statements of the module body *)

\* the import wrapped in `try: ... except ImportError: pass`
ImportFrom_Swallow(m) ==
    /\ pc = m
    /\ LET names == ImportNames(m)
           k == FirstMissing(m)
           i0 == CHOOSE i \in 1..Len(ImportOrder) : ImportOrder[i] = m
       IN  /\ namespace' = namespace \cup {<<names[i], m>> : i \in 1..(k - 1)}
           /\ pc' = IF i0 < Len(ImportOrder) THEN ImportOrder[i0 + 1]
                    ELSE "classification_metrics"
           /\ raised' = raised
    /\ attempted' = Append(attempted, m)
    /\ UNCHANGED <<provided, __classification_metrics, __regression_metrics,
                   __all__, star_status, star_names, mutations>>

\* `from m import n1, ..., nk`: binds the names in order; the first name m
\* does not expose raises ImportError, which nothing in the body catches
ImportFrom(m) ==
    /\ pc = m
    /\ LET names == ImportNames(m)
           k == FirstMissing(m)
       IN  /\ namespace' = namespace \cup {<<names[i], m>> : i \in 1..(k - 1)}
           /\ IF k > Len(names)
              THEN /\ pc' = AfterImport(Index(m))
                   /\ raised' = raised
              ELSE /\ pc' = "failed"
                   /\ raised' = "ImportError"
    /\ attempted' = Append(attempted, m)
    /\ UNCHANGED <<provided, lists, star_status, star_names, mutations>>

ImportConverters == ImportFrom("converters")

ImportMetric == ImportFrom("metric")

ImportRegression == ImportFrom("regression")

ImportClassification == ImportFrom("classification")

ImportSklearns == ImportFrom("sklearns")

\* lines 31-48
AssignClassification ==
    /\ pc = "classification_metrics"
    /\ __classification_metrics' = ClassificationLiteral
    /\ namespace' = namespace \cup {<<"__classification_metrics", "__init__">>}
    /\ pc' = "regression_metrics"
    /\ UNCHANGED <<provided, attempted, raised, __regression_metrics, __all__,
                   star_status, star_names, mutations>>

\* lines 49-54
AssignRegression ==
    /\ pc = "regression_metrics"
    /\ __regression_metrics' = RegressionLiteral
    /\ namespace' = namespace \cup {<<"__regression_metrics", "__init__">>}
    /\ pc' = "all"
    /\ UNCHANGED <<provided, attempted, raised, __classification_metrics, __all__,
                   star_status, star_names, mutations>>

\* `__all__ = __regression_metrics; __all__ += ...`: the regression list is
\* extended in place through the alias
AssignAll_InPlace ==
    /\ pc = "all"
    /\ __all__' = __regression_metrics \o __classification_metrics \o <<"SklearnMetric">>
    /\ __regression_metrics' = __all__'
    /\ namespace' = namespace \cup {<<"__all__", "__init__">>}
    /\ pc' = "done"
    /\ UNCHANGED <<provided, attempted, raised, __classification_metrics,
                   star_status, star_names, mutations>>

\* line 55; `+` builds a new list, the operands are left as they are
AssignAll ==
    /\ pc = "all"
    /\ Bound("__regression_metrics")
    /\ Bound("__classification_metrics")
    /\ __all__' = AllExpr(__regression_metrics, __classification_metrics)
    /\ namespace' = namespace \cup {<<"__all__", "__init__">>}
    /\ pc' = "done"
    /\ UNCHANGED <<provided, attempted, raised, __classification_metrics,
                   __regression_metrics, star_status, star_names, mutations>>

Load ==
    \/ ImportConverters
    \/ ImportMetric
    \/ ImportRegression
    \/ ImportClassification
    \/ ImportSklearns
    \/ AssignClassification
    \/ AssignRegression
    \/ AssignAll

---------------------------------------------------------------------------
(* Consumers of the loaded module *)

\* `from pytorch_lightning.metrics import *`: looks up every entry of
\* __all__ in the module globals; an entry that is not bound raises
\* AttributeError.  Only a module whose load completed can be imported from.
WildcardImport ==
    /\ pc = "done"
    /\ star_status = "none"
    /\ IF \A i \in 1..Len(__all__) : Bound(__all__[i])
       THEN /\ star_status' = "ok"
            /\ star_names' = Range(__all__)
       ELSE /\ star_status' = "AttributeError"
            /\ star_names' = {}
    /\ UNCHANGED <<provided, pc, namespace, attempted, raised, lists, mutations>>

\* names a consumer may append
MutationNames == {"Metric", "MSE"}

\* the three names are bound to ordinary list objects, so a consumer holding
\* the module can change them in place (append, pop)
ConsumerMutate ==
    /\ pc = "done"
    /\ mutations < MaxMutations
    /\ mutations' = mutations + 1
    /\ \/ \E n \in MutationNames :
             \/ /\ __all__' = Append(__all__, n)
                /\ UNCHANGED <<__classification_metrics, __regression_metrics>>
             \/ /\ __regression_metrics' = Append(__regression_metrics, n)
                /\ UNCHANGED <<__classification_metrics, __all__>>
             \/ /\ __classification_metrics' = Append(__classification_metrics, n)
                /\ UNCHANGED <<__regression_metrics, __all__>>
       \/ /\ Len(__all__) > 0
          /\ __all__' = SubSeq(__all__, 1, Len(__all__) - 1)
          /\ UNCHANGED <<__classification_metrics, __regression_metrics>>
    /\ UNCHANGED <<provided, pc, namespace, attempted, raised,
                   star_status, star_names>>

---------------------------------------------------------------------------
(* Specifications *)

\* the module body and read-only consumers
Next ==
    \/ Load
    \/ WildcardImport

Spec == Init /\ [][Next]_vars

\* the same with consumers that mutate the lists in place
NextMut ==
    \/ Load
    \/ WildcardImport
    \/ ConsumerMutate

SpecMut == Init /\ [][NextMut]_vars

---------------------------------------------------------------------------
(* Properties *)

\* some collaborator does not expose a name the module imports from it
SymbolMissing == \E m \in Collaborators : FirstMissing(m) <= Len(ImportNames(m))

\* the first import statement, in source order, whose collaborator lacks a name
FirstFailing ==
    CHOOSE i \in 1..Len(ImportOrder) :
        /\ FirstMissing(ImportOrder[i]) <= Len(ImportNames(ImportOrder[i]))
        /\ \A j \in 1..(i - 1) :
              FirstMissing(ImportOrder[j]) > Len(ImportNames(ImportOrder[j]))

\* C1: once the load has completed, each of the 21 entries of __all__ is
\* bound in the module globals, and bound by one of the five import
\* statements (no dangling export name).
C1_NoDanglingExport ==
    pc = "done" =>
        /\ Len(__all__) = 21
        /\ \A i \in 1..Len(__all__) :
              \E m \in Collaborators : <<__all__[i], m>> \in namespace

\* C1 case: a wildcard import of the loaded module resolved all 21 entries
C1_Witness ==
    /\ pc = "done"
    /\ star_status = "ok"
    /\ Cardinality(star_names) = 21
    /\ \A n \in Range(__all__) : Bound(n)

\* C2: no name occurs twice in __all__, whether inside the regression
\* list, inside the classification list, across the two, or as the extra
\* name.
C2_ManifestUnique ==
    pc = "done" =>
        /\ \A i, j \in 1..Len(__all__) : i # j => __all__[i] # __all__[j]
        /\ \A i, j \in 1..Len(__regression_metrics) :
              i # j => __regression_metrics[i] # __regression_metrics[j]
        /\ \A i, j \in 1..Len(__classification_metrics) :
              i # j => __classification_metrics[i] # __classification_metrics[j]
        /\ Range(__regression_metrics) \cap Range(__classification_metrics) = {}
        /\ "SklearnMetric" \notin
              Range(__regression_metrics) \cup Range(__classification_metrics)

\* C2 case: the manifest is built and holds 21 pairwise different names
C2_Witness ==
    /\ Bound("__all__")
    /\ Len(__all__) = 21
    /\ Cardinality(Range(__all__)) = 21

\* C3: when a collaborator lacks an imported name, __all__ is never bound
\* (neither empty nor otherwise), the load never completes, no consumer
\* gets the module, and once the offending import statement has run the load
\* is in the failed state with ImportError delivered to the initiator.
C3_MissingSymbolFailsLoad ==
    SymbolMissing =>
        /\ ~Bound("__all__")
        /\ __all__ = <<>>
        /\ pc # "done"
        /\ star_status = "none"
        /\ Len(attempted) >= FirstFailing => (pc = "failed" /\ raised = "ImportError")
        /\ Len(attempted) < FirstFailing => (pc # "failed" /\ raised = "none")

\* C3 case: a name is missing and the load has failed on it
C3_Witness ==
    /\ SymbolMissing
    /\ pc = "failed"
    /\ raised = "ImportError"
    /\ attempted[Len(attempted)] = ImportOrder[FirstFailing]

\* C4: the length of __all__ is the length of the regression list plus the
\* length of the classification list plus one, that is 4 + 16 + 1 = 21.
C4_ManifestLength ==
    pc = "done" =>
        /\ Len(__all__) = Len(__regression_metrics) + Len(__classification_metrics) + 1
        /\ Len(__regression_metrics) = 4
        /\ Len(__classification_metrics) = 16
        /\ Len(__all__) = 21

\* C4 case: all three lists are bound, with lengths 4, 16 and 21
C4_Witness ==
    /\ pc = "done"
    /\ <<Len(__regression_metrics), Len(__classification_metrics), Len(__all__)>>
          = <<4, 16, 21>>

\* C5: the regression list is MSE, RMSE, MAE, RMSLE in this order, and its
\* names are exactly the names the module imported from the regression
\* collaborator.
C5_RegressionList ==
    Bound("__regression_metrics") =>
        /\ __regression_metrics = <<"MSE", "RMSE", "MAE", "RMSLE">>
        /\ Range(__regression_metrics) = BoundFrom("regression")

\* C5 case: the regression list has been assigned after the regression import
C5_Witness ==
    /\ Bound("__regression_metrics")
    /\ Len(__regression_metrics) = 4
    /\ "regression" \in Range(attempted)

\* C6: the classification list holds exactly 16 names: the 14 names
\* imported from the classification collaborator together with AUC and
\* PrecisionRecallCurve, which come from the sklearns collaborator.
C6_ClassificationList ==
    Bound("__classification_metrics") =>
        /\ Len(__classification_metrics) = 16
        /\ Cardinality(Range(__classification_metrics)) = 16
        /\ Cardinality(BoundFrom("classification")) = 14
        /\ Range(__classification_metrics)
              = BoundFrom("classification") \cup {"AUC", "PrecisionRecallCurve"}
        /\ {"AUC", "PrecisionRecallCurve"} \subseteq BoundFrom("sklearns")
        /\ {"AUC", "PrecisionRecallCurve"} \cap BoundFrom("classification") = {}

\* C6 case: the classification list has been assigned and holds AUC
C6_Witness ==
    /\ Bound("__classification_metrics")
    /\ "AUC" \in Range(__classification_metrics)
    /\ <<"AUC", "sklearns">> \in namespace

\* C7 as stated: after the load has completed no step, whatever a consumer
\* does, changes __all__ or the two name lists.
C7_ImmutableWhateverConsumersDo ==
    [][pc = "done" => UNCHANGED lists]_vars

\* C7 as amended: each of the three names is bound once and every step
\* other than an in-place mutation by a consumer (the remaining statements
\* of the module body, a wildcard import) leaves a bound list as it is.
C7_UnchangedByModuleAndReaders ==
    [][(mutations' = mutations) =>
          /\ Bound("__classification_metrics") =>
                UNCHANGED __classification_metrics
          /\ Bound("__regression_metrics") => UNCHANGED __regression_metrics
          /\ Bound("__all__") => UNCHANGED __all__]_vars

\* C7 case: a consumer has used the loaded module and the lists are as built
C7_Witness ==
    /\ pc = "done"
    /\ star_status = "ok"
    /\ mutations = 0
    /\ __all__ = __regression_metrics \o __classification_metrics \o <<"SklearnMetric">>

\* C8: __all__ is the regression list, then the classification list, then
\* the single name SklearnMetric: entries 1..4, 5..20 and 21.
C8_ManifestOrder ==
    pc = "done" =>
        /\ Len(__all__) = 21
        /\ SubSeq(__all__, 1, 4) = __regression_metrics
        /\ SubSeq(__all__, 5, 20) = __classification_metrics
        /\ __all__[21] = "SklearnMetric"

\* C8 case: the manifest is built, starts with MSE and ends with SklearnMetric
C8_Witness ==
    /\ pc = "done"
    /\ __all__[1] = "MSE"
    /\ __all__[5] = "AUC"
    /\ __all__[Len(__all__)] = "SklearnMetric"

\* C9: the imports run in source order; the lists are built only after all
\* five imports succeeded; the load stops at the first import whose
\* collaborator lacks a name, so nothing later has run in the failed state.
C9_SequentialLoad ==
    /\ Len(attempted) <= Len(ImportOrder)
    /\ attempted = SubSeq(ImportOrder, 1, Len(attempted))
    /\ pc \in Collaborators => ImportOrder[Len(attempted) + 1] = pc
    /\ (\/ pc \in {"classification_metrics", "regression_metrics", "all", "done"}
        \/ Bound("__classification_metrics")
        \/ Bound("__regression_metrics")
        \/ Bound("__all__")
        \/ lists # <<<<>>, <<>>, <<>>>>)
          => /\ attempted = ImportOrder
             /\ raised = "none"
             /\ ~SymbolMissing
             /\ \A m \in Collaborators : BoundFrom(m) = Range(ImportNames(m))
    /\ pc = "failed" =>
          /\ SymbolMissing
          /\ Len(attempted) = FirstFailing
          /\ lists = <<<<>>, <<>>, <<>>>>
          /\ BoundFrom("__init__") = {}
          /\ \A i \in (FirstFailing + 1)..Len(ImportOrder) :
                BoundFrom(ImportOrder[i]) = {}

\* C9 case: the load failed at an import that is neither the first nor the last
C9_Witness ==
    /\ pc = "failed"
    /\ Len(attempted) = 3
    /\ BoundFrom("metric") # {}
    /\ BoundFrom("classification") = {}

\* C10: after the load the five names from converters and metric are bound
\* but absent from __all__, every name imported from regression,
\* classification and sklearns is in __all__, and so __all__ is a strict
\* subset of the imported names.
C10_ManifestStrictSubset ==
    pc = "done" =>
        /\ \A n \in {"numpy_metric", "tensor_metric", "Metric", "TensorMetric",
                     "NumpyMetric"} : Bound(n) /\ n \notin Range(__all__)
        /\ BoundFrom("converters") \cap Range(__all__) = {}
        /\ BoundFrom("metric") \cap Range(__all__) = {}
        /\ BoundFrom("regression") \cup BoundFrom("classification")
              \cup BoundFrom("sklearns") \subseteq Range(__all__)
        /\ Range(__all__) \subseteq
              UNION {BoundFrom(m) : m \in Collaborators}
        /\ Range(__all__) # UNION {BoundFrom(m) : m \in Collaborators}

\* C10 case: the load completed with 26 imported names, 21 of them exported
C10_Witness ==
    /\ pc = "done"
    /\ Cardinality(UNION {BoundFrom(m) : m \in Collaborators}) = 26
    /\ Cardinality(Range(__all__) \cap Imported) = 21

====
